---- MODULE Spec2Model ----
(***************************************************************************)
(* busca-cnpj-e-salva: main.py queries the ReceitaWS registry for one CNPJ *)
(* (obter_dados_empresa_por_cnpj), flattens the nested fields of the       *)
(* record (tratar_dados_aninhados) and writes it as a one-row spreadsheet  *)
(* (salvar_dados_empresa_excel).  The module models the script statement   *)
(* by statement: one action per statement, pc is the statement to run.     *)
(***************************************************************************)
EXTENDS Integers, Sequences, FiniteSets, TLC

(***************************************************************************)
(* Python / JSON values.  Every value is a record tagged by t, each tag    *)
(* with its own payload field, so that values of different types compare   *)
(* unequal.  A dict is the sequence of its <<key, value>> pairs in         *)
(* insertion order (Python dicts keep it).                                 *)
(***************************************************************************)
Str(s) == [t |-> "str", s |-> s]
Num(n) == [t |-> "num", n |-> n]
Bool(b) == [t |-> "bool", b |-> b]
None == [t |-> "null"]
List(l) == [t |-> "list", l |-> l]
Dict(d) == [t |-> "dict", d |-> d]

\* The largest list the registry answers with in this model.
MaxEntries == 2

\* bool(v): the truth value Python gives v in `if dados_empresa and ...`.
Truthy(v) ==
    CASE v.t = "str" -> v.s # ""
      [] v.t = "num" -> v.n # 0
      [] v.t = "bool" -> v.b
      [] v.t = "null" -> FALSE
      [] v.t = "list" -> Len(v.l) > 0
      [] v.t = "dict" -> Len(v.d) > 0

\* k in d, for a dict d.
HasKey(d, k) == \E i \in 1..Len(d.d) : d.d[i][1] = k

\* d[k], for a dict d that has k.
GetItem(d, k) == d.d[CHOOSE i \in 1..Len(d.d) : d.d[i][1] = k][2]

\* d[k] = v with every key moved to the end on assignment (not what a
\* Python dict does).
SetItemReordering(d, k, v) ==
    Dict(SelectSeq(d.d, LAMBDA p : p[1] # k) \o << <<k, v>> >>)

\* d[k] = v: an existing key keeps its position, a new key goes last.
SetItem(d, k, v) ==
    IF HasKey(d, k)
    THEN Dict([i \in 1..Len(d.d) |->
                 IF d.d[i][1] = k THEN <<k, v>> ELSE d.d[i]])
    ELSE Dict(Append(d.d, <<k, v>>))

\* The keys of a dict, in iteration order.
Keys(d) == [i \in 1..Len(d.d) |-> d.d[i][1]]

\* sep.join(strs) for a sequence of strings.
RECURSIVE Join(_, _)
Join(sep, strs) ==
    IF Len(strs) = 0 THEN ""
    ELSE IF Len(strs) = 1 THEN strs[1]
    ELSE strs[1] \o sep \o Join(sep, Tail(strs))

\* repr(v) and str(v).  They differ on strings only: repr quotes them.
RECURSIVE PyRepr(_)
PyRepr(v) ==
    CASE v.t = "str" -> "'" \o v.s \o "'"
      [] v.t = "num" -> ToString(v.n)
      [] v.t = "bool" -> IF v.b THEN "True" ELSE "False"
      [] v.t = "null" -> "None"
      [] v.t = "list" ->
           "[" \o Join(", ", [i \in 1..Len(v.l) |-> PyRepr(v.l[i])]) \o "]"
      [] v.t = "dict" ->
           "{" \o Join(", ", [i \in 1..Len(v.d) |->
                   PyRepr(Str(v.d[i][1])) \o ": " \o PyRepr(v.d[i][2])])
               \o "}"

PyStr(v) == IF v.t = "str" THEN v.s ELSE PyRepr(v)

(***************************************************************************)
(* The response body.  It is a sequence of chunks of bytes: the UTF-8      *)
(* encoding of one JSON token (a punctuation mark or a scalar literal), or *)
(* a byte that is no valid UTF-8 (0xFF).                                   *)
(***************************************************************************)
P(c) == [k |-> "punct", c |-> c]
Lit(v) == [k |-> "lit", v |-> v]
BadByte == [k |-> "byte", b |-> 255]

IsP(tok, c) == tok.k = "punct" /\ tok.c = c

\* The registry's side: the JSON text of a value (what json.loads inverts).
RECURSIVE Serialize(_)
RECURSIVE SerializeAll(_, _)
Serialize(v) ==
    CASE v.t = "list" ->
           <<P("[")>>
           \o SerializeAll([i \in 1..Len(v.l) |-> Serialize(v.l[i])], 1)
           \o <<P("]")>>
      [] v.t = "dict" ->
           <<P("{")>>
           \o SerializeAll([i \in 1..Len(v.d) |->
                  <<Lit(Str(v.d[i][1])), P(":")>> \o Serialize(v.d[i][2])], 1)
           \o <<P("}")>>
      [] OTHER -> <<Lit(v)>>
SerializeAll(parts, i) ==
    IF i > Len(parts) THEN <<>>
    ELSE IF i = Len(parts) THEN parts[i]
    ELSE parts[i] \o <<P(",")>> \o SerializeAll(parts, i + 1)

\* dados.decode("utf-8"): the text, or UnicodeDecodeError on an invalid byte.
Decode(bytes) ==
    IF \E i \in 1..Len(bytes) : bytes[i].k = "byte"
    THEN [ok |-> FALSE, text |-> <<>>]
    ELSE [ok |-> TRUE, text |-> bytes]

\* json.loads, by recursive descent over the tokens.  A result is
\* [ok, v, i, msg]: the value and the next position, or the position and the
\* diagnostic of the JSONDecodeError.
ParseOk(v, i) == [ok |-> TRUE, v |-> v, i |-> i, msg |-> ""]
ParseFail(msg, i) == [ok |-> FALSE, v |-> None, i |-> i, msg |-> msg]

RECURSIVE ParseValue(_, _)
RECURSIVE ParseElems(_, _, _)
RECURSIVE ParseMembers(_, _, _)
ParseValue(toks, i) ==
    IF i > Len(toks) THEN ParseFail("Expecting value", i)
    ELSE IF toks[i].k = "lit" THEN ParseOk(toks[i].v, i + 1)
    ELSE IF IsP(toks[i], "[") THEN
        IF i + 1 <= Len(toks) /\ IsP(toks[i + 1], "]")
        THEN ParseOk(List(<<>>), i + 2)
        ELSE ParseElems(toks, i + 1, <<>>)
    ELSE IF IsP(toks[i], "{") THEN
        IF i + 1 <= Len(toks) /\ IsP(toks[i + 1], "}")
        THEN ParseOk(Dict(<<>>), i + 2)
        ELSE ParseMembers(toks, i + 1, Dict(<<>>))
    ELSE ParseFail("Expecting value", i)
ParseElems(toks, i, acc) ==
    LET r == ParseValue(toks, i) IN
    IF ~r.ok THEN r
    ELSE IF r.i > Len(toks) THEN ParseFail("Expecting ',' delimiter", r.i)
    ELSE IF IsP(toks[r.i], "]") THEN ParseOk(List(Append(acc, r.v)), r.i + 1)
    ELSE IF IsP(toks[r.i], ",") THEN ParseElems(toks, r.i + 1, Append(acc, r.v))
    ELSE ParseFail("Expecting ',' delimiter", r.i)
ParseMembers(toks, i, acc) ==
    IF i > Len(toks) \/ toks[i].k # "lit" \/ toks[i].v.t # "str"
    THEN ParseFail("Expecting property name enclosed in double quotes", i)
    ELSE IF i + 1 > Len(toks) \/ ~IsP(toks[i + 1], ":")
    THEN ParseFail("Expecting ':' delimiter", i + 1)
    ELSE LET r == ParseValue(toks, i + 2) IN
         IF ~r.ok THEN r
         ELSE IF r.i > Len(toks) THEN ParseFail("Expecting ',' delimiter", r.i)
         ELSE IF IsP(toks[r.i], "}")
         THEN ParseOk(SetItem(acc, toks[i].v.s, r.v), r.i + 1)
         ELSE IF IsP(toks[r.i], ",")
         THEN ParseMembers(toks, r.i + 1, SetItem(acc, toks[i].v.s, r.v))
         ELSE ParseFail("Expecting ',' delimiter", r.i)

JsonLoads(text) ==
    LET r == ParseValue(text, 1) IN
    IF r.ok /\ r.i <= Len(text) THEN ParseFail("Extra data", r.i) ELSE r

\* str(e) of a JSONDecodeError.
DiagnosticOf(r) == r.msg \o ": char " \o ToString(r.i - 1)

(***************************************************************************)
(* tratar_dados_aninhados, field by field.  An evaluation gives            *)
(* [exc, v]: exc is "none" and v the value, or exc names the exception     *)
(* raised.                                                                 *)
(***************************************************************************)
Value(v) == [exc |-> "none", v |-> v]
Raise(exc) == [exc |-> exc, v |-> None]

\* `for x in v`: the items a Python for loop draws from v.  A dict yields its
\* keys; a string yields its characters, which the model keeps as one str
\* item for a non-empty string (every character is a str); a number,
\* a bool and None are not iterable.
Iterate(v) ==
    CASE v.t = "list" -> Value(List(v.l))
      [] v.t = "dict" -> Value(List([i \in 1..Len(v.d) |-> Str(v.d[i][1])]))
      [] v.t = "str" -> Value(List(IF v.s = "" THEN <<>> ELSE <<Str(v.s)>>))
      [] OTHER -> Raise("TypeError")

\* x[k] for a string key k: the value, KeyError when a dict lacks k,
\* TypeError when x is no dict.
Subscript(x, k) ==
    IF x.t # "dict" THEN Raise("TypeError")
    ELSE IF HasKey(x, k) THEN Value(GetItem(x, k))
    ELSE Raise("KeyError")

\* x.get(k, default) for a dict x.
GetOr(x, k, default) == IF HasKey(x, k) THEN GetItem(x, k) ELSE default

\* The first exception a sequence of evaluations raises, "none" if none does.
FirstExc(rs) ==
    IF \A i \in 1..Len(rs) : rs[i].exc = "none" THEN "none"
    ELSE rs[CHOOSE i \in 1..Len(rs) :
                /\ rs[i].exc # "none"
                /\ \A j \in 1..(i - 1) : rs[j].exc = "none"].exc

\* "; ".join([ativ['text'] for ativ in campo]): the comprehension runs to
\* its end first, then join refuses an item that is no str.
JoinTexts(campo) ==
    LET it == Iterate(campo) IN
    IF it.exc # "none" THEN Raise(it.exc)
    ELSE LET rs == [i \in 1..Len(it.v.l) |-> Subscript(it.v.l[i], "text")] IN
         IF FirstExc(rs) # "none" THEN Raise(FirstExc(rs))
         ELSE IF \E i \in 1..Len(rs) : rs[i].v.t # "str" THEN Raise("TypeError")
         ELSE Value(Str(Join("; ", [i \in 1..Len(rs) |-> rs[i].v.s])))

\* f"{q['nome']} ({q.get('qual', '')})" with the parentheses left out when
\* qual is absent.
FormatSocioBare(q) ==
    LET nome == Subscript(q, "nome") IN
    IF nome.exc # "none" THEN nome
    ELSE IF HasKey(q, "qual")
    THEN Value(Str(PyStr(nome.v) \o " (" \o PyStr(GetItem(q, "qual")) \o ")"))
    ELSE Value(Str(PyStr(nome.v)))

\* f"{q['nome']} ({q.get('qual', '')})"
FormatSocio(q) ==
    LET nome == Subscript(q, "nome") IN
    IF nome.exc # "none" THEN nome
    ELSE Value(Str(PyStr(nome.v) \o " ("
                   \o PyStr(GetOr(q, "qual", Str(""))) \o ")"))

\* "; ".join([f"{q['nome']} ({q.get('qual', '')})" for q in campo])
JoinSocios(campo) ==
    LET it == Iterate(campo) IN
    IF it.exc # "none" THEN Raise(it.exc)
    ELSE LET rs == [i \in 1..Len(it.v.l) |-> FormatSocio(it.v.l[i])] IN
         IF FirstExc(rs) # "none" THEN Raise(FirstExc(rs))
         ELSE Value(Str(Join("; ", [i \in 1..Len(rs) |-> rs[i].v.s])))

\* The five fields in the order tratar_dados_aninhados rewrites them.
Campos == <<"atividade_principal", "atividades_secundarias", "qsa",
            "billing", "extra">>

\* The right-hand side of the assignment to dados[campo].
Flatten(campo, v) ==
    CASE campo \in {"atividade_principal", "atividades_secundarias"} ->
           JoinTexts(v)
      [] campo = "qsa" -> JoinSocios(v)
      [] campo \in {"billing", "extra"} -> Value(Str(PyStr(v)))

(***************************************************************************)
(* What the registry may answer.                                           *)
(***************************************************************************)
SeqsUpTo(S, n) == UNION {[1..k -> S] : k \in 0..n}

Absent == [t |-> "absent"]

\* A record of the given pairs, the absent ones left out.
Record(pairs) == Dict(SelectSeq(pairs, LAMBDA p : p[2].t # "absent"))

AtividadeA == Dict(<< <<"code", Str("62")>>, <<"text", Str("A")>> >>)
AtividadeB == Dict(<< <<"text", Str("B")>> >>)
SemText == Dict(<< <<"code", Str("00")>> >>)
SocioX == Dict(<< <<"nome", Str("X")>>, <<"qual", Str("Socio")>> >>)
SocioY == Dict(<< <<"nome", Str("Y")>> >>)
SemNome == Dict(<< <<"qual", Str("Socio")>> >>)

AtividadePrincipalShapes ==
    {List(l) : l \in SeqsUpTo({AtividadeA, AtividadeB}, MaxEntries)}
    \cup {Absent, List(<<AtividadeA, SemText>>), Num(5)}

AtividadesSecundariasShapes ==
    {Absent, List(<<AtividadeB>>), Str(""), Dict(<< <<"text", Str("A")>> >>),
     List(<< Dict(<< <<"text", Num(5)>> >>) >>)}

QsaShapes ==
    {List(l) : l \in SeqsUpTo({SocioX, SocioY}, MaxEntries)}
    \cup {Absent, List(<<SocioX, SemNome>>)}

BillingShapes ==
    {Absent, Dict(<< <<"free", Bool(TRUE)>>, <<"database", Bool(TRUE)>> >>)}

ExtraShapes == {Absent, Dict(<<>>)}

StatusShapes == {Absent, Str("OK")}

\* The company records: the keys in the order the registry sends them.
CompanyRecords ==
    {Record(<< <<"cnpj", Str("06947283000160")>>,
               <<"atividade_principal", ap>>,
               <<"atividades_secundarias", sec>>,
               <<"qsa", q>>,
               <<"status", st>>,
               <<"extra", ex>>,
               <<"billing", b>> >>) :
        ap \in AtividadePrincipalShapes, sec \in AtividadesSecundariasShapes,
        q \in QsaShapes, st \in StatusShapes, ex \in ExtraShapes,
        b \in BillingShapes}

\* The registry's own error answers, sent with status 200.
RegistryErrors ==
    {Dict(<< <<"status", Str("ERROR")>>, <<"message", Str("CNPJ inválido")>> >>),
     Dict(<< <<"status", Str("ERROR")>> >>),
     Dict(<< <<"atividade_principal", List(<<AtividadeA>>)>>,
             <<"status", Str("ERROR")>>,
             <<"message", Str("CNPJ rejeitado")>> >>)}

\* JSON documents that are no non-empty record.
OtherDocuments == {Dict(<<>>), None, List(<<>>), List(<<AtividadeA>>), Num(0)}

Payloads == CompanyRecords \cup RegistryErrors \cup OtherDocuments

\* Documents whose text is cut short or garbled below.
Samples ==
    {Dict(<< <<"cnpj", Str("06947283000160")>>,
             <<"qsa", List(<<SocioY>>)>> >>),
     Dict(<< <<"status", Str("ERROR")>>, <<"message", Str("CNPJ inválido")>> >>),
     Num(5)}

Prefixes(toks) == {SubSeq(toks, 1, n) : n \in 0..(Len(toks) - 1)}

\* Bodies that are UTF-8 text and no JSON: a document cut short, two
\* documents in a row, a document with a stray token in it, an HTML page.
MalformedBodies ==
    UNION {Prefixes(Serialize(v)) : v \in Samples}
    \cup {Serialize(v) \o Serialize(v) : v \in Samples}
    \cup {<<P("{")>> \o Serialize(v) \o <<P("}")>> : v \in Samples}
    \cup {<<P("<"), Lit(Str("html")), P(">")>>}

\* Bodies with a byte that is no UTF-8.
UndecodableBodies ==
    {<<BadByte>>} \cup {Serialize(v) \o <<BadByte>> : v \in Samples}

Response(status, kind, body) ==
    [status |-> status, kind |-> kind, body |-> body]

\* The status of a successful response (line 40).
HTTP_OK == 200

StatusCodes == {HTTP_OK, 301, 404, 429, 500}

\* With status 200 any body; with another status a few of each kind.
Responses ==
    {Response(HTTP_OK, "json", Serialize(v)) : v \in Payloads}
    \cup {Response(st, "json", Serialize(v)) :
            st \in StatusCodes \ {HTTP_OK}, v \in Samples}
    \cup {Response(st, "malformed", b) : st \in StatusCodes, b \in MalformedBodies}
    \cup {Response(st, "undecodable", b) :
            st \in StatusCodes, b \in UndecodableBodies}

(***************************************************************************)
(* The state of one run of the script.                                     *)
(***************************************************************************)
VARIABLES
    pc,             \* the statement to run next, "done" or "crashed"
    conexao,        \* the HTTPSConnection: "none", "created", "connected", "closed"
    resposta,       \* the response getresponse returned
    dados,          \* the bytes resposta.read() returned
    empresa,        \* the value json.loads returned
    e,              \* str(e) of the JSONDecodeError caught
    dados_empresa,  \* the module's dados_empresa, the object the exporter is given
    console,        \* the lines printed
    arquivo,        \* dados_empresa.xlsx
    fault,          \* the uncaught exception that ended the run
    eventos         \* history: the calls, returns and effects so far

vars == <<pc, conexao, resposta, dados, empresa, e, dados_empresa, console,
          arquivo, fault, eventos>>

Unset == [t |-> "unset"]
NoResponse == Response(0, "none", <<>>)
NoFault == [exc |-> "none", em |-> "none"]

\* The spreadsheet: a header row and one data row, or no file.
NoFile == [exists |-> FALSE, columns |-> <<>>, row |-> <<>>]
Sheet(columns, row) == [exists |-> TRUE, columns |-> columns, row |-> row]
OldFile == Sheet(<<"cnpj">>, <<Str("00000000000191")>>)

ErrorResult(message) ==
    Dict(<< <<"status", Str("ERROR")>>, <<"message", Str(message)>> >>)

Init ==
    /\ pc = "obter"
    /\ conexao = "none"
    /\ resposta = NoResponse
    /\ dados = <<>>
    /\ empresa = Unset
    /\ e = ""
    /\ dados_empresa = Unset
    /\ console = <<>>
    /\ arquivo \in {NoFile, OldFile}
    /\ fault = NoFault
    /\ eventos = <<>>

\* An exception nobody catches: the traceback ends the run.
Crash(exc) ==
    /\ fault' = [exc |-> exc, em |-> pc]
    /\ pc' = "crashed"

(***************************************************************************)
(* obter_dados_empresa_por_cnpj                                            *)
(***************************************************************************)
\* Lines 200 and 26: the call, and the connection object (no socket yet).
CallObter ==
    /\ pc = "obter"
    /\ conexao' = "created"
    /\ eventos' = Append(eventos, "obter_call")
    /\ pc' = "request"
    /\ UNCHANGED <<resposta, dados, empresa, e, dados_empresa, console,
                   arquivo, fault>>

\* Line 30: request connects and sends the GET.
Request ==
    /\ pc = "request"
    /\ conexao' = "connected"
    /\ eventos' = Append(eventos, "request")
    /\ pc' = "getresponse"
    /\ UNCHANGED <<resposta, dados, empresa, e, dados_empresa, console,
                   arquivo, fault>>

\* Line 30: the host is not resolved or refuses; no socket was opened.
RequestFails ==
    /\ pc = "request"
    /\ Crash("OSError")
    /\ UNCHANGED <<conexao, resposta, dados, empresa, e, dados_empresa,
                   console, arquivo, eventos>>

\* Line 33: the status line and headers arrive.
GetResponse ==
    /\ pc = "getresponse"
    /\ \E r \in Responses : resposta' = r
    /\ eventos' = Append(eventos, "response")
    /\ pc' = "print_status"
    /\ UNCHANGED <<conexao, dados, empresa, e, dados_empresa, console,
                   arquivo, fault>>

\* Line 33: the server drops the connection; http.client closes its side
\* and raises.
GetResponseFails ==
    /\ pc = "getresponse"
    /\ conexao' = "closed"
    /\ Crash("RemoteDisconnected")
    /\ UNCHANGED <<resposta, dados, empresa, e, dados_empresa, console,
                   arquivo, eventos>>

\* Line 36.
PrintStatus ==
    /\ pc = "print_status"
    /\ console' = Append(console,
                    "Status da Resposta HTTP: " \o ToString(resposta.status))
    /\ pc' = "check_status"
    /\ UNCHANGED <<conexao, resposta, dados, empresa, e, dados_empresa,
                   arquivo, fault, eventos>>

\* Line 40 taking only the 4xx and 5xx statuses for errors.
IsErrorStatusFrom400(status) == status >= 400

\* Line 40: resposta.status != 200.
IsErrorStatus(status) == status # HTTP_OK

\* Line 43: the value returned for a status that is not 200.
StatusErrorResult(status) ==
    ErrorResult("Resposta HTTP com status " \o ToString(status))

\* Lines 40-43: the status check; the error value is returned at once.
CheckStatus ==
    /\ pc = "check_status"
    /\ IF IsErrorStatus(resposta.status)
       THEN /\ dados_empresa' = StatusErrorResult(resposta.status)
            /\ eventos' = Append(eventos, "obter_return")
            /\ pc' = "salvar"
       ELSE /\ pc' = "read"
            /\ UNCHANGED <<dados_empresa, eventos>>
    /\ UNCHANGED <<conexao, resposta, dados, empresa, e, console, arquivo,
                   fault>>

\* Line 46.
ReadBody ==
    /\ pc = "read"
    /\ dados' = resposta.body
    /\ eventos' = Append(eventos, "read")
    /\ pc' = "close"
    /\ UNCHANGED <<conexao, resposta, empresa, e, dados_empresa, console,
                   arquivo, fault>>

\* Line 46: the body ends before its Content-Length.
ReadFails ==
    /\ pc = "read"
    /\ Crash("IncompleteRead")
    /\ UNCHANGED <<conexao, resposta, dados, empresa, e, dados_empresa,
                   console, arquivo, eventos>>

\* Line 49.
CloseConexao ==
    /\ pc = "close"
    /\ conexao' = "closed"
    /\ eventos' = Append(eventos, "close")
    /\ pc' = "loads"
    /\ UNCHANGED <<resposta, dados, empresa, e, dados_empresa, console,
                   arquivo, fault>>

\* Line 57: decode, then parse.  Only JSONDecodeError is caught (line 71).
Loads ==
    /\ pc = "loads"
    /\ LET d == Decode(dados) IN
       IF ~d.ok
       THEN /\ Crash("UnicodeDecodeError")
            /\ UNCHANGED <<empresa, e, eventos>>
       ELSE LET r == JsonLoads(d.text) IN
            /\ eventos' = Append(eventos, "loads")
            /\ fault' = fault
            /\ IF r.ok
               THEN /\ empresa' = r.v
                    /\ pc' = "print_empresa"
                    /\ e' = e
               ELSE /\ e' = DiagnosticOf(r)
                    /\ pc' = "except"
                    /\ empresa' = empresa
    /\ UNCHANGED <<conexao, resposta, dados, dados_empresa, console, arquivo>>

\* Lines 63-68.
ReturnEmpresa ==
    /\ pc = "print_empresa"
    /\ console' = Append(console, "Empresa decodificada: " \o PyStr(empresa))
    /\ dados_empresa' = empresa
    /\ eventos' = Append(eventos, "obter_return")
    /\ pc' = "salvar"
    /\ UNCHANGED <<conexao, resposta, dados, empresa, e, arquivo, fault>>

\* Line 86: the value returned for a body that is no JSON.
DecodeErrorResult(diagnostic) == ErrorResult("Erro na decodificação do JSON.")

\* Lines 81-86.
ExceptJSONDecodeError ==
    /\ pc = "except"
    /\ console' = Append(console, "Erro na decodificação do JSON: " \o e)
    /\ dados_empresa' = DecodeErrorResult(e)
    /\ eventos' = Append(eventos, "obter_return")
    /\ pc' = "salvar"
    /\ UNCHANGED <<conexao, resposta, dados, empresa, e, arquivo, fault>>

(***************************************************************************)
(* salvar_dados_empresa_excel and tratar_dados_aninhados                   *)
(***************************************************************************)
\* Line 106 without the status test: every non-empty record is saved.
GuardNonEmptyOnly(v) ==
    IF ~Truthy(v) THEN "skip"
    ELSE IF v.t # "dict" THEN "AttributeError"
    ELSE "save"

\* Line 106: dados_empresa and dados_empresa.get('status') != 'ERROR'.
\* A falsy value short-cuts to the else branch; .get exists on a dict only.
Guard(v) ==
    IF ~Truthy(v) THEN "skip"
    ELSE IF v.t # "dict" THEN "AttributeError"
    ELSE IF GetOr(v, "status", None) # Str("ERROR") THEN "save"
    ELSE "skip"

\* Lines 203 and 106: the call, and the guard.
CallSalvar ==
    /\ pc = "salvar"
    /\ LET g == Guard(dados_empresa) IN
       IF g = "AttributeError"
       THEN /\ Crash("AttributeError")
            /\ eventos' = Append(eventos, "salvar_call")
       ELSE /\ fault' = fault
            /\ IF g = "save"
               THEN /\ pc' = Campos[1]
                    /\ eventos' = eventos \o <<"salvar_call", "guard_ok",
                                               "tratar_call">>
               ELSE /\ pc' = "print_skip"
                    /\ eventos' = eventos \o <<"salvar_call", "guard_skip">>
    /\ UNCHANGED <<conexao, resposta, dados, empresa, e, dados_empresa,
                   console, arquivo>>

\* Lines 160-188 with the exception caught and turned into the error
\* record, which the exporter then reports as a skipped save.
TratarCampoSwallowing(i) ==
    /\ pc = Campos[i]
    /\ IF HasKey(dados_empresa, Campos[i])
       THEN LET r == Flatten(Campos[i], GetItem(dados_empresa, Campos[i])) IN
            IF r.exc # "none"
            THEN /\ dados_empresa' = ErrorResult(r.exc)
                 /\ fault' = [exc |-> r.exc, em |-> pc]
                 /\ pc' = "print_skip"
            ELSE /\ dados_empresa' = SetItem(dados_empresa, Campos[i], r.v)
                 /\ pc' = IF i < Len(Campos) THEN Campos[i + 1]
                          ELSE "tratar_return"
                 /\ fault' = fault
       ELSE /\ pc' = IF i < Len(Campos) THEN Campos[i + 1] ELSE "tratar_return"
            /\ UNCHANGED <<dados_empresa, fault>>
    /\ UNCHANGED <<conexao, resposta, dados, empresa, e, console, arquivo,
                   eventos>>

\* Lines 160-188 run on a copy of the record: an exception leaves the
\* caller's record as it was given.
TratarCampoOnCopy(i) ==
    /\ pc = Campos[i]
    /\ IF HasKey(dados_empresa, Campos[i])
       THEN LET r == Flatten(Campos[i], GetItem(dados_empresa, Campos[i])) IN
            IF r.exc # "none"
            THEN /\ Crash(r.exc)
                 /\ dados_empresa' = empresa
            ELSE /\ dados_empresa' = SetItem(dados_empresa, Campos[i], r.v)
                 /\ pc' = IF i < Len(Campos) THEN Campos[i + 1]
                          ELSE "tratar_return"
                 /\ fault' = fault
       ELSE /\ pc' = IF i < Len(Campos) THEN Campos[i + 1] ELSE "tratar_return"
            /\ UNCHANGED <<dados_empresa, fault>>
    /\ UNCHANGED <<conexao, resposta, dados, empresa, e, console, arquivo,
                   eventos>>

\* Lines 160-188, one `if` at a time: the field, when present, is replaced
\* in the caller's record by its flat form; an exception in the right-hand
\* side leaves the record as it is and ends the run.
TratarCampo(i) ==
    /\ pc = Campos[i]
    /\ IF HasKey(dados_empresa, Campos[i])
       THEN LET r == Flatten(Campos[i], GetItem(dados_empresa, Campos[i])) IN
            IF r.exc # "none"
            THEN /\ Crash(r.exc)
                 /\ UNCHANGED dados_empresa
            ELSE /\ dados_empresa' = SetItem(dados_empresa, Campos[i], r.v)
                 /\ pc' = IF i < Len(Campos) THEN Campos[i + 1]
                          ELSE "tratar_return"
                 /\ fault' = fault
       ELSE /\ pc' = IF i < Len(Campos) THEN Campos[i + 1] ELSE "tratar_return"
            /\ UNCHANGED <<dados_empresa, fault>>
    /\ UNCHANGED <<conexao, resposta, dados, empresa, e, console, arquivo,
                   eventos>>

\* Lines 193 and 112: the same object is returned and bound again.
TratarReturn ==
    /\ pc = "tratar_return"
    /\ eventos' = Append(eventos, "tratar_return")
    /\ pc' = "to_excel"
    /\ UNCHANGED <<conexao, resposta, dados, empresa, e, dados_empresa,
                   console, arquivo, fault>>

\* Line 119: pd.DataFrame([dados_empresa]): the keys are the columns, in
\* the dict's order, the values the single row.
DataFrame(registro) ==
    Sheet(Keys(registro), [i \in 1..Len(registro.d) |-> registro.d[i][2]])

\* Lines 119-126: the file is created or replaced.
ToExcel ==
    /\ pc = "to_excel"
    /\ arquivo' = DataFrame(dados_empresa)
    /\ eventos' = Append(eventos, "to_excel")
    /\ pc' = "print_salvo"
    /\ UNCHANGED <<conexao, resposta, dados, empresa, e, dados_empresa,
                   console, fault>>

NomeArquivo == "dados_empresa.xlsx"

\* Line 131.
PrintSalvo ==
    /\ pc = "print_salvo"
    /\ console' = Append(console,
          "Dados da empresa salvos com sucesso no arquivo " \o NomeArquivo)
    /\ eventos' = Append(eventos, "print_salvo")
    /\ pc' = "done"
    /\ UNCHANGED <<conexao, resposta, dados, empresa, e, dados_empresa,
                   arquivo, fault>>

\* The line printed at line 138.
SkipNotice(v) ==
    "Não há dados válidos para salvar. Mensagem de erro: "
    \o PyStr(GetOr(v, "message", None))

\* Line 138: .get exists on a dict only.
PrintSkip ==
    /\ pc = "print_skip"
    /\ IF dados_empresa.t = "dict"
       THEN /\ console' = Append(console, SkipNotice(dados_empresa))
            /\ eventos' = Append(eventos, "print_skip")
            /\ pc' = "done"
            /\ fault' = fault
       ELSE /\ Crash("AttributeError")
            /\ UNCHANGED <<console, eventos>>
    /\ UNCHANGED <<conexao, resposta, dados, empresa, e, dados_empresa,
                   arquivo>>

Next ==
    \/ CallObter
    \/ Request
    \/ RequestFails
    \/ GetResponse
    \/ GetResponseFails
    \/ PrintStatus
    \/ CheckStatus
    \/ ReadBody
    \/ ReadFails
    \/ CloseConexao
    \/ Loads
    \/ ReturnEmpresa
    \/ ExceptJSONDecodeError
    \/ CallSalvar
    \/ \E i \in 1..Len(Campos) : TratarCampo(i)
    \/ TratarReturn
    \/ ToExcel
    \/ PrintSalvo
    \/ PrintSkip

Spec == Init /\ [][Next]_vars

(***************************************************************************)
(* Properties.                                                             *)
(***************************************************************************)
Count(ev) == Cardinality({i \in 1..Len(eventos) : eventos[i] = ev})
Happened(ev) == \E i \in 1..Len(eventos) : eventos[i] = ev
\* Every occurrence of ev2 has an occurrence of ev1 before it.
Precedes(ev1, ev2) ==
    \A j \in 1..Len(eventos) :
        eventos[j] = ev2 => \E i \in 1..(j - 1) : eventos[i] = ev1
Printed(line) == \E i \in 1..Len(console) : console[i] = line

\* An ErrorResult, or the empty record.
IsErrorOrEmpty(v) ==
    /\ v.t = "dict"
    /\ \/ Len(v.d) = 0
       \/ \E i \in 1..Len(v.d) : v.d[i] = <<"status", Str("ERROR")>>

MessageText(v) ==
    IF \E i \in 1..Len(v.d) : v.d[i][1] = "message"
    THEN LET m == v.d[CHOOSE i \in 1..Len(v.d) : v.d[i][1] = "message"][2]
         IN IF m.t = "str" THEN m.s ELSE "?"
    ELSE "None"

SavedLine == "Dados da empresa salvos com sucesso no arquivo dados_empresa.xlsx"

\* C1: called with an ErrorResult or an empty record, the exporter does not
\* call the normalizer, leaves the file as it was, prints no confirmation
\* and ends having printed the skip notice with the record's message, once,
\* as its last line; and the file never holds a row whose status is ERROR.
C1_GuardSkips ==
    /\ (Happened("salvar_call") /\ IsErrorOrEmpty(dados_empresa)) =>
         /\ ~Happened("tratar_call")
         /\ ~Happened("to_excel")
         /\ arquivo \in {NoFile, OldFile}
         /\ ~Printed(SavedLine)
         /\ pc \in {"print_skip", "done"}
         /\ fault = NoFault
         /\ pc = "done" =>
              /\ Count("print_skip") = 1
              /\ console[Len(console)] =
                   "Não há dados válidos para salvar. Mensagem de erro: "
                   \o MessageText(dados_empresa)
    /\ \A i \in 1..Len(arquivo.columns) :
         arquivo.columns[i] = "status" => arquivo.row[i] # Str("ERROR")

C1_Witness ==
    /\ pc = "done"
    /\ IsErrorOrEmpty(dados_empresa)
    /\ HasKey(dados_empresa, "atividade_principal")
    /\ resposta.status = HTTP_OK
    /\ arquivo = OldFile
    /\ console[Len(console)] =
         "Não há dados válidos para salvar. Mensagem de erro: CNPJ rejeitado"

\* C2: once a response whose status is not 200 has arrived, the body is
\* never read, decoded or parsed, and what the fetcher returns is the record
\* {status: "ERROR", message: "Resposta HTTP com status <code>"}.
C2_NonOkStatus ==
    (Happened("response") /\ resposta.status # HTTP_OK) =>
        /\ ~Happened("read")
        /\ ~Happened("loads")
        /\ dados = <<>>
        /\ empresa = Unset
        /\ pc \notin {"read", "close", "loads", "print_empresa", "except"}
        /\ fault.em \notin {"read", "loads"}
        /\ Happened("obter_return") =>
             /\ Keys(dados_empresa) = <<"status", "message">>
             /\ dados_empresa.d[1][2] = Str("ERROR")
             /\ dados_empresa.d[2][2] =
                  Str("Resposta HTTP com status " \o ToString(resposta.status))

C2_Witness ==
    /\ pc = "done"
    /\ resposta.status = 301
    /\ resposta.kind = "json"
    /\ console[Len(console)] =
         "Não há dados válidos para salvar. Mensagem de erro: "
         \o "Resposta HTTP com status 301"

DecodeErrorRecord ==
    Dict(<< <<"status", Str("ERROR")>>,
            <<"message", Str("Erro na decodificação do JSON.")>> >>)

\* C3: for a response with status 200 whose body is no well-formed JSON,
\* once the body is read and line 57 has run the fetcher has returned
\* exactly {status: "ERROR", message: "Erro na decodificação do JSON."}.
C3_MalformedBody ==
    (/\ resposta.status = HTTP_OK
     /\ resposta.kind # "json"
     /\ Happened("read")
     /\ pc \notin {"close", "loads", "except"}) =>
        /\ Happened("obter_return")
        /\ dados_empresa = DecodeErrorRecord

\* What C3 says holds of the bodies that are UTF-8 text: there the fixed
\* record is returned, and the diagnostic is in the console line alone.
C3_DecodableMalformedBody ==
    (/\ resposta.status = HTTP_OK
     /\ resposta.kind = "malformed"
     /\ Happened("read")
     /\ pc \notin {"close", "loads", "except"}) =>
        /\ Happened("obter_return")
        /\ dados_empresa = DecodeErrorRecord
        /\ e # ""
        /\ console[2] = "Erro na decodificação do JSON: " \o e

\* C4: no fault leaves obter_dados_empresa_por_cnpj: no run ends with an
\* exception raised at one of its statements.
C4_NoFaultLeavesObter ==
    fault.em \notin {"request", "getresponse", "read", "loads"}

\* C5: whenever the fetcher has returned, the connection has been closed,
\* after one request and one response.
C5_ClosedOnReturn ==
    Happened("obter_return") =>
        /\ conexao = "closed"
        /\ Count("request") = 1
        /\ Count("response") = 1

\* What C5 says holds of the returns after a status 200: there the
\* connection is closed, after one request and one response.
C5_ClosedOnReturnAfterOk ==
    (Happened("obter_return") /\ resposta.status = HTTP_OK) =>
        /\ conexao = "closed"
        /\ Count("request") = 1
        /\ Count("response") = 1
        /\ Precedes("read", "close")

\* The company's error shape {status: "ERROR", message: ...}.
IsErrorShape(v) ==
    /\ v.t = "dict"
    /\ \E i \in 1..Len(v.d) : v.d[i] = <<"status", Str("ERROR")>>

\* C6: an exception raised at one of the normalizer's five statements ends
\* the run there: nothing runs after it, the file is as it was, neither the
\* confirmation nor a skip notice is printed, and the record is not turned
\* into the {status: "ERROR", message} shape.
C6_NormalizerFaultPropagates ==
    (\E i \in 1..Len(Campos) : fault.em = Campos[i]) =>
        /\ pc = "crashed"
        /\ fault.exc \in {"KeyError", "TypeError"}
        /\ ~ENABLED Next
        /\ ~Happened("tratar_return")
        /\ ~Happened("to_excel")
        /\ arquivo \in {NoFile, OldFile}
        /\ ~Happened("print_salvo")
        /\ ~Happened("print_skip")
        /\ ~Printed(SavedLine)
        /\ Len(console) = 2
        /\ console[1] = "Status da Resposta HTTP: 200"
        /\ console[2] = "Empresa decodificada: " \o PyStr(empresa)
        /\ ~IsErrorShape(dados_empresa)

C6_Witness ==
    /\ pc = "crashed"
    /\ fault = [exc |-> "KeyError", em |-> "qsa"]
    /\ arquivo = OldFile
    /\ HasKey(dados_empresa, "billing")

\* C7: a run that has ended made one fetch and then one exporter call, and
\* at every moment the steps so far are in the order fetch return, exporter
\* call, guard, normalization, file write, confirmation, the file written at
\* most once.
C7_OneCycleInOrder ==
    /\ pc \in {"done", "crashed"} =>
         /\ Count("obter_call") = 1
         /\ Count("obter_return") = 1
         /\ Count("salvar_call") = 1
    /\ Count("to_excel") <= 1
    /\ Precedes("obter_call", "obter_return")
    /\ Precedes("obter_return", "salvar_call")
    /\ Precedes("guard_ok", "tratar_call")
    /\ Precedes("tratar_call", "tratar_return")
    /\ Precedes("tratar_return", "to_excel")
    /\ Precedes("to_excel", "print_salvo")

\* What C7 says of the order alone also of the runs in which the fetcher
\* returns: they make one exporter call, on the value returned.
C7_OrderWhenObterReturns ==
    /\ (pc \in {"done", "crashed"} /\ Happened("obter_return")) =>
         /\ Count("obter_call") = 1
         /\ Count("obter_return") = 1
         /\ Count("salvar_call") = 1
    /\ Count("to_excel") <= 1
    /\ Precedes("obter_call", "obter_return")
    /\ Precedes("obter_return", "salvar_call")
    /\ Precedes("guard_ok", "tratar_call")
    /\ Precedes("tratar_call", "tratar_return")
    /\ Precedes("tratar_return", "to_excel")
    /\ Precedes("to_excel", "print_salvo")
    /\ Printed(SavedLine) => Happened("to_excel")

\* The value of key k in record v, Absent when v has no such key.
Field(v, k) ==
    IF \E i \in 1..Len(v.d) : v.d[i][1] = k
    THEN v.d[CHOOSE i \in 1..Len(v.d) : v.d[i][1] = k][2]
    ELSE Absent

\* The entries of a field: those of a list, none of an empty string.
Entries(v) == IF v.t = "list" THEN v.l ELSE <<>>

TextsJoined(v) ==
    Join("; ", [i \in 1..Len(Entries(v)) |-> Field(Entries(v)[i], "text").s])

SociosJoined(v) ==
    Join("; ", [i \in 1..Len(Entries(v)) |->
        Field(Entries(v)[i], "nome").s \o " ("
        \o (IF Field(Entries(v)[i], "qual") = Absent THEN ""
            ELSE Field(Entries(v)[i], "qual").s)
        \o ")"])

\* The string the spec gives for field k with original value v.
FlatForm(k, v) ==
    CASE k \in {"atividade_principal", "atividades_secundarias"} ->
           Str(TextsJoined(v))
      [] k = "qsa" -> Str(SociosJoined(v))
      [] k \in {"billing", "extra"} ->
           Str(CASE v = Dict(<<>>) -> "{}"
                 [] v = Dict(<< <<"free", Bool(TRUE)>>,
                                <<"database", Bool(TRUE)>> >>) ->
                      "{'free': True, 'database': True}"
                 [] OTHER -> "?")

\* C8: when tratar_dados_aninhados has returned, each of the five keys that
\* is present holds one string: the texts joined with "; ", the partners as
\* "<nome> (<qual or nothing>)" joined with "; ", the str() of billing and
\* of extra; the spec's two examples give "A; B" and "X (Socio); Y ()".
C8_FlattenedOnReturn ==
    Happened("tratar_return") =>
        /\ \A i \in 1..Len(Campos) :
             Field(empresa, Campos[i]) # Absent =>
                Field(dados_empresa, Campos[i]) =
                    FlatForm(Campos[i], Field(empresa, Campos[i]))
        /\ Field(empresa, "atividade_principal")
             = List(<<AtividadeA, AtividadeB>>)
           => Field(dados_empresa, "atividade_principal") = Str("A; B")
        /\ Field(empresa, "qsa") = List(<<SocioX, SocioY>>)
           => Field(dados_empresa, "qsa") = Str("X (Socio); Y ()")

C8_Witness ==
    /\ pc = "done"
    /\ Field(dados_empresa, "atividade_principal") = Str("A; B")
    /\ Field(dados_empresa, "atividades_secundarias") = Str("B")
    /\ Field(dados_empresa, "qsa") = Str("X (Socio); Y ()")
    /\ Field(dados_empresa, "billing") = Str("{'free': True, 'database': True}")
    /\ Field(dados_empresa, "extra") = Str("{}")

IsCampo(k) == \E i \in 1..Len(Campos) : Campos[i] = k

\* C9: from the normalizer's call on, whether it returns or raises, the
\* record has the keys it was given, in the same order, and the value of
\* every key other than the five is the one it was given; a record with
\* none of the five keys is the record it was given.
C9_OtherKeysUntouched ==
    Happened("tratar_call") =>
        /\ Len(dados_empresa.d) = Len(empresa.d)
        /\ \A i \in 1..Len(empresa.d) :
             /\ dados_empresa.d[i][1] = empresa.d[i][1]
             /\ ~IsCampo(empresa.d[i][1]) => dados_empresa.d[i] = empresa.d[i]
        /\ (\A i \in 1..Len(empresa.d) : ~IsCampo(empresa.d[i][1]))
             => dados_empresa = empresa

C9_Witness ==
    /\ pc = "done"
    /\ Happened("to_excel")
    /\ Len(empresa.d) = 7
    /\ Field(empresa, "qsa") = List(<<SocioY, SocioX>>)
    /\ arquivo.columns = <<"cnpj", "atividade_principal",
                           "atividades_secundarias", "qsa", "status", "extra",
                           "billing">>
    /\ arquivo.row[1] = Str("06947283000160")
    /\ arquivo.row[5] = Str("OK")

\* C10: when the normalizer raises at the i-th of the five fields, every
\* earlier field that is present holds its flat string in the caller's
\* record, and the i-th and the later fields hold what they were given.
C10_PartialRewriteOnFault ==
    \A i \in 1..Len(Campos) :
        fault.em = Campos[i] =>
            /\ \A j \in 1..(i - 1) :
                 Field(empresa, Campos[j]) # Absent =>
                    /\ Field(dados_empresa, Campos[j]).t = "str"
                    /\ Field(dados_empresa, Campos[j]) =
                         FlatForm(Campos[j], Field(empresa, Campos[j]))
            /\ \A j \in i..Len(Campos) :
                 Field(dados_empresa, Campos[j]) = Field(empresa, Campos[j])

C10_Witness ==
    /\ fault = [exc |-> "KeyError", em |-> "qsa"]
    /\ Field(empresa, "atividade_principal") = List(<<AtividadeA, AtividadeB>>)
    /\ Field(dados_empresa, "atividade_principal") = Str("A; B")
    /\ Field(dados_empresa, "atividades_secundarias") = Str("B")
    /\ Field(dados_empresa, "qsa") = List(<<SocioX, SemNome>>)
    /\ Field(dados_empresa, "billing").t = "dict"
    /\ Field(dados_empresa, "extra") = Dict(<<>>)

====
